---- MODULE Spec2Model ----
(***************************************************************************)
(* The proxy pool of 03_代理IP的使用与管理/proxy_pool: ProxyInfo records   *)
(* (base.py) and ProxyPool (pool.py), an asyncio program.                  *)
(*                                                                         *)
(* asyncio runs one coroutine at a time and switches only at an await that *)
(* really suspends, so one action below is the code between two            *)
(* suspension points.  The suspension points of pool.py are                *)
(* fetcher.fetch(), checker.check_batch(), asyncio.sleep() and stop()'s    *)
(* await of the loop task.  "async with self._lock" never suspends here:   *)
(* no critical section contains an await, so the lock is free whenever a   *)
(* coroutine reaches it; the lock is kept as a variable so that this is    *)
(* something the model states and not something it assumes.                *)
(*                                                                         *)
(* Units: avg_response_time in deciseconds, scores in 1/1000, the clock    *)
(* in steps of check_interval seconds.                                     *)
(***************************************************************************)
EXTENDS Integers, Sequences, FiniteSets, TLC

\* ------------------------------------------------------------- bounds
\* ProxyInfo objects that exist (callers and the fetcher hold references)
NObjs == 3
\* loop tasks that may ever be created (one per start() that initialises)
MaxTasks == 2
\* stop() calls in flight at once
MaxStopCalls == 2
\* candidates one check_batch() call validates
MaxFetch == 2
\* Spec follows one record through its uses: one start(), one loop task,
\* one stop() at a time, PoolSamples uses reported through return_proxy,
\* PoolTime clock ticks, max_proxies = PoolMaxProxies
PoolTasks == 1
PoolStopCalls == 1
PoolSamples == 5
PoolTime == 1
PoolMaxProxies == 1
\* SpecLoop follows start(), stop() and the loop around one record that is
\* used LoopSamples times
LoopSamples == 1
\* SpecTwo follows two records of different endpoints, with fewer uses
TwoSamples == 1
TwoMaxProxies == 2
\* SpecCap follows three objects, two of them of one endpoint, through a pool
\* that holds CapMaxProxies records
CapSamples == 1
CapMaxProxies == 1
\* SpecLife follows the lifecycle: every task and stop() call
LifeSamples == 1
LifeTime == 1
LifeMaxProxies == 1
\* min_proxies, a constructor argument, of every specification but SpecStale
MinProxies == 1
\* SpecStale follows two records until they are stale, in a pool of
\* min_proxies = StaleMinProxies
StaleSamples == 1
StaleTime == 3
StaleMaxProxies == 2
StaleMinProxies == 2
\* SpecStaleFair follows the same two records through the loop's iterations
\* as time passes, with StaleFairSamples uses reported
StaleFairSamples == 0
\* check_batch on its own: the length of the input list, the concurrency, the
\* measured response times (in units of SAMPLE_DS), the time, and the status
\* code a site answers with when it does not answer 200
MaxBatch == 2
MaxConcurrency == 2
BatchSamples == 1
BatchTime == 1
OtherStatus == 204
\* SpecRec starts from a pool that holds one record a caller has added, with
\* success_count in 0 .. RecMaxSuccess or RecManySuccesses, fail_count in
\* 0 .. RecMaxFail and avg_response_time a multiple (0 .. RecLatencies) of
\* RecLatencyStep deciseconds, and follows it through RecSamples more uses
RecMaxSuccess == 2
RecManySuccesses == 50
RecMaxFail == 3
RecLatencies == 3
RecLatencyStep == 50
RecSamples == 1

\* -------------------------------------------------- program constants
max_fail_count == 3
MIN_SAMPLES == 5
score_threshold == 300
WEIGHT_FLOOR == 100
STALE_SECONDS == 600
check_interval == 300
\* the response time a successful probe measures, in deciseconds
SAMPLE_DS == 100
\* "response.status_code == 200", and len(CHECK_URLS)
HTTP_OK == 200
NCheckUrls == 3

\* ---------------------------------------------------------- the state
VARIABLES
    heap,          \* heap[o]: the mutable fields of ProxyInfo object o
    proxies,       \* self._proxies: key -> object, NoObj where the key is absent
    lock,          \* self._lock is held
    running,       \* self._running
    refresh_task,  \* self._refresh_task: a task, or NoTask for None
    task,          \* task[t]: where loop task t is, and whether cancel() was called on it
    startPc,       \* startPc[i]: where the i-th start() call in flight is suspended
    stopWait,      \* stopWait[s]: the task the s-th stop() call in flight awaits
    now,           \* time.time()
    max_proxies,   \* self.max_proxies
    ret,           \* what the latest get_proxy() call returned
    lim,           \* how far this run goes: objects in use, tasks, stop calls, samples,
                   \* time; and self.min_proxies, which is never written
    batch          \* the checker and its check_batch() call: the semaphore, the
                   \* check_one() coroutines, valid_proxies and checked_count

vars == <<heap, proxies, lock, running, refresh_task, task, startPc, stopWait,
          now, max_proxies, ret, lim, batch>>

Objs == 1 .. NObjs
NoObj == 0
TaskIds == 1 .. MaxTasks
NoTask == 0
StartIds == 1 .. MaxTasks
StopIds == 1 .. MaxStopCalls

\* values of ret that are not objects: None, an exception out of get_proxy,
\* and the value before the first call
NoneVal == 0
Raised == -1
NoCall == -2

\* a key made of the host alone: the two endpoints get one key
_proxy_key_HostOnly(o) == 1

\* f"{proxy.host}:{proxy.port}": objects 1 and 2 are two ProxyInfo objects of
\* the same endpoint, every other object has an endpoint of its own
_proxy_key(o) == IF o <= 2 THEN 1 ELSE o - 1

Keys == {_proxy_key(o) : o \in Objs}

\* ------------------------------------------------------------ base.py
\* the dataclass defaults; last_check_time is the time of creation
NewProxyInfo(t) == [success_count |-> 0, fail_count |-> 0, avg_response_time |-> 0,
                    last_check_time |-> t, last_use_time |-> 0]

Max(a, b) == IF a >= b THEN a ELSE b

\* the score without its prior: 0 for a record that has no sample
ScoreNum_NoPrior(r) ==
    LET total == r.success_count + r.fail_count
        time_score == Max(0, 100 - r.avg_response_time)
    IN  IF total = 0 THEN 0
        ELSE 700 * r.success_count + 3 * time_score * total

\* the score without max(0, ...): a latency above 10 seconds counts below zero
ScoreNum_NoClamp(r) ==
    LET total == r.success_count + r.fail_count
        time_score == 100 - r.avg_response_time
    IN  IF total = 0 THEN 500
        ELSE 700 * r.success_count + 3 * time_score * total

\* score = ScoreNum / ScoreDen, in 1/1000
ScoreDen(r) ==
    LET total == r.success_count + r.fail_count
    IN  IF total = 0 THEN 1 ELSE total

ScoreNum(r) ==
    LET total == r.success_count + r.fail_count
        time_score == Max(0, 100 - r.avg_response_time)
    IN  IF total = 0 THEN 500
        ELSE 700 * r.success_count + 3 * time_score * total

\* score < bound, bound in 1/1000
ScoreBelow(r, bound) == ScoreNum(r) < bound * ScoreDen(r)

\* is_stale with >= in place of >
is_stale_AtLeast(r) == (now - r.last_check_time) * check_interval >= STALE_SECONDS

\* is_stale with the difference the wrong way round: never true
is_stale_Reversed(r) == (r.last_check_time - now) * check_interval > STALE_SECONDS

is_stale(r) == (now - r.last_check_time) * check_interval > STALE_SECONDS

\* ------------------------------------------------------------ pool.py
\* self.min_proxies
min_proxies == lim.min_proxies

StoredKeys == {k \in Keys : proxies[k] # NoObj}
StoredObjs == {proxies[k] : k \in StoredKeys}
size == Cardinality(StoredKeys)

\* ------------------------------------------------------------ checker.py
\* ProxyChecker(): self.check_urls is CHECK_URLS, and there is no
\* expected_status attribute
ProxyChecker == [check_urls |-> NCheckUrls, expected_status |-> NoneVal]

\* TargetSiteChecker(target_url, expected_status): the one URL and the
\* attribute
TargetSiteChecker(expected_status) ==
    [check_urls |-> 1, expected_status |-> expected_status]

\* no check_batch() call is in progress on checker c
NoBatch(c) ==
    [pc |-> "idle", checker |-> c, proxies |-> <<>>, concurrency |-> 0,
     semaphore |-> 0, one |-> <<>>, valid_proxies |-> <<>>,
     checked_count |-> 0, result |-> <<>>]

RECURSIVE SumSamples(_)
SumSamples(S) ==
    IF S = {} THEN 0
    ELSE LET o == CHOOSE x \in S : TRUE
         IN  heap[o].success_count + heap[o].fail_count + SumSamples(S \ {o})

\* the state after ProxyPool(fetcher, checker, max_proxies=mp, ...)
InitWith(mp, lm) ==
    /\ heap = [o \in Objs |-> NewProxyInfo(0)]
    /\ proxies = [k \in Keys |-> NoObj]
    /\ lock = FALSE
    /\ running = FALSE
    /\ refresh_task = NoTask
    /\ task = [t \in TaskIds |-> [pc |-> "none", cancel |-> FALSE]]
    /\ startPc = [i \in StartIds |-> "idle"]
    /\ stopWait = [s \in StopIds |-> NoTask]
    /\ now = 0
    /\ max_proxies = mp
    /\ ret = NoCall
    /\ lim = lm
    /\ batch = NoBatch(ProxyChecker)

\* ------------------------------------------------- foreground callers
\* the weight without its floor
Weight_NoFloor(r) == ScoreNum(r)

\* max(p.score, 0.1), over ScoreDen
Weight(r) == Max(ScoreNum(r), WEIGHT_FLOOR * ScoreDen(r))

\* the selection as if an evicted record were still in the dict
get_results_KeepsEvicted ==
    LET evicted == {o \in lim.objs :
                       /\ heap[o].fail_count >= max_fail_count
                       /\ heap[o].success_count + heap[o].fail_count >= MIN_SAMPLES
                       /\ ScoreBelow(heap[o], score_threshold)}
        population == StoredObjs \cup evicted
    IN  IF population = {} THEN {NoneVal} ELSE population

\* the selection without the test for an empty dict: random.choices raises
\* IndexError on an empty population
get_results_NoEmptyTest ==
    LET positive == {o \in StoredObjs : Weight(heap[o]) > 0}
    IN  IF positive = {} THEN {Raised} ELSE positive

\* what random.choices(proxies, weights, k=1)[0] can return: an element of
\* positive weight; it raises ValueError when the weights sum to zero
get_results ==
    IF StoredKeys = {} THEN {NoneVal}
    ELSE LET positive == {o \in StoredObjs : Weight(heap[o]) > 0}
         IN  IF positive = {} THEN {Raised} ELSE positive

\* get_proxy that stamps last_use_time on every record it weighed
get_proxy_StampsAll ==
    /\ ~lock
    /\ \E r \in get_results :
           /\ ret' = r
           /\ heap' = IF r \in Objs
                      THEN [o \in Objs |->
                               IF o \in StoredObjs
                               THEN [heap[o] EXCEPT !.last_use_time = now]
                               ELSE heap[o]]
                      ELSE heap
    /\ UNCHANGED <<proxies, lock, running, refresh_task, task, startPc,
                   stopWait, now, max_proxies, lim, batch>>

\* get_proxy: None, or the selected record with last_use_time = time.time();
\* an exception of random.choices leaves the pool as it was
get_proxy ==
    /\ ~lock
    /\ \E r \in get_results :
           /\ ret' = r
           /\ heap' = IF r \in Objs
                      THEN [heap EXCEPT ![r].last_use_time = now]
                      ELSE heap
    /\ UNCHANGED <<proxies, lock, running, refresh_task, task, startPc,
                   stopWait, now, max_proxies, lim, batch>>

\* the eviction test with fail_count > max_fail_count
ShouldEvict_Strict(r) ==
    /\ r.fail_count > max_fail_count
    /\ r.success_count + r.fail_count >= MIN_SAMPLES
    /\ ScoreBelow(r, score_threshold)

\* the eviction test without the minimum sample size
ShouldEvict_NoMinSamples(r) ==
    /\ r.fail_count >= max_fail_count
    /\ ScoreBelow(r, score_threshold)

\* the eviction test without the score: the counters alone decide
ShouldEvict_NoScoreTest(r) ==
    /\ r.fail_count >= max_fail_count
    /\ r.success_count + r.fail_count >= MIN_SAMPLES

\* the test that decides eviction, on the stored record after fail_count += 1
ShouldEvict(r) ==
    /\ r.fail_count >= max_fail_count
    /\ r.success_count + r.fail_count >= MIN_SAMPLES
    /\ ScoreBelow(r, score_threshold)

\* return_proxy that writes the counter from a value read when the record was
\* created instead of the stored one: the earlier updates are lost
return_proxy_StaleRead(o, success) ==
    /\ ~lock
    /\ LET key == _proxy_key(o)
       IN  IF proxies[key] = NoObj
           THEN UNCHANGED vars
           ELSE LET stored_proxy == proxies[key]
                    r == heap[stored_proxy]
                    r2 == IF success
                          THEN [r EXCEPT !.success_count = 1]
                          ELSE [r EXCEPT !.fail_count = 1]
                IN  /\ SumSamples(Objs) < lim.samples
                    /\ heap' = [heap EXCEPT ![stored_proxy] = r2]
                    /\ proxies' = IF ~success /\ ShouldEvict(r2)
                                  THEN [proxies EXCEPT ![key] = NoObj]
                                  ELSE proxies
                    /\ UNCHANGED <<lock, running, refresh_task, task, startPc,
                                   stopWait, now, max_proxies, ret, lim, batch>>

\* return_proxy that counts on the caller's object when the key is absent
return_proxy_CountsAbsent(o, success) ==
    /\ ~lock
    /\ LET key == _proxy_key(o)
           stored_proxy == IF proxies[key] = NoObj THEN o ELSE proxies[key]
           r == heap[stored_proxy]
           r2 == IF success
                 THEN [r EXCEPT !.success_count = @ + 1]
                 ELSE [r EXCEPT !.fail_count = @ + 1]
       IN  /\ SumSamples(Objs) < lim.samples
           /\ heap' = [heap EXCEPT ![stored_proxy] = r2]
           /\ proxies' = IF ~success /\ ShouldEvict(r2)
                         THEN [proxies EXCEPT ![key] = NoObj]
                         ELSE proxies
           /\ UNCHANGED <<lock, running, refresh_task, task, startPc,
                          stopWait, now, max_proxies, ret, lim, batch>>

\* return_proxy whose success takes one failure back
return_proxy_SuccessForgives(o, success) ==
    /\ ~lock
    /\ LET key == _proxy_key(o)
       IN  IF proxies[key] = NoObj
           THEN UNCHANGED vars
           ELSE LET stored_proxy == proxies[key]
                    r == heap[stored_proxy]
                    r2 == IF success
                          THEN [r EXCEPT !.success_count = @ + 1,
                                         !.fail_count = IF @ > 0 THEN @ - 1 ELSE 0]
                          ELSE [r EXCEPT !.fail_count = @ + 1]
                IN  /\ SumSamples(Objs) < lim.samples
                    /\ heap' = [heap EXCEPT ![stored_proxy] = r2]
                    /\ proxies' = IF ~success /\ ShouldEvict(r2)
                                  THEN [proxies EXCEPT ![key] = NoObj]
                                  ELSE proxies
                    /\ UNCHANGED <<lock, running, refresh_task, task, startPc,
                                   stopWait, now, max_proxies, ret, lim, batch>>

\* return_proxy that counts on the object the caller passes
return_proxy_CountsOnCaller(o, success) ==
    /\ ~lock
    /\ LET key == _proxy_key(o)
       IN  IF proxies[key] = NoObj
           THEN UNCHANGED vars
           ELSE LET r == heap[o]
                    r2 == IF success
                          THEN [r EXCEPT !.success_count = @ + 1]
                          ELSE [r EXCEPT !.fail_count = @ + 1]
                IN  /\ SumSamples(Objs) < lim.samples
                    /\ heap' = [heap EXCEPT ![o] = r2]
                    /\ proxies' = IF ~success /\ ShouldEvict(r2)
                                  THEN [proxies EXCEPT ![key] = NoObj]
                                  ELSE proxies
                    /\ UNCHANGED <<lock, running, refresh_task, task, startPc,
                                   stopWait, now, max_proxies, ret, lim, batch>>

return_proxy(o, success) ==
    /\ ~lock
    /\ LET key == _proxy_key(o)
       IN  IF proxies[key] = NoObj
           THEN UNCHANGED vars
           ELSE LET stored_proxy == proxies[key]
                    r == heap[stored_proxy]
                    r2 == IF success
                          THEN [r EXCEPT !.success_count = @ + 1]
                          ELSE [r EXCEPT !.fail_count = @ + 1]
                IN  /\ SumSamples(Objs) < lim.samples
                    /\ heap' = [heap EXCEPT ![stored_proxy] = r2]
                    /\ proxies' = IF ~success /\ ShouldEvict(r2)
                                  THEN [proxies EXCEPT ![key] = NoObj]
                                  ELSE proxies
                    /\ UNCHANGED <<lock, running, refresh_task, task, startPc,
                                   stopWait, now, max_proxies, ret, lim, batch>>

\* add_proxy that stores the caller's object over a stored one of the same key
add_proxy_Replaces(o) ==
    /\ ~lock
    /\ LET key == _proxy_key(o)
       IN  proxies' = IF proxies[key] # NoObj \/ size < max_proxies
                      THEN [proxies EXCEPT ![key] = o]
                      ELSE proxies
    /\ UNCHANGED <<heap, lock, running, refresh_task, task, startPc, stopWait,
                   now, max_proxies, ret, lim, batch>>

\* add_proxy without the test of len(self._proxies) against max_proxies
add_proxy_NoCapacity(o) ==
    /\ ~lock
    /\ LET key == _proxy_key(o)
       IN  proxies' = IF proxies[key] = NoObj
                      THEN [proxies EXCEPT ![key] = o]
                      ELSE proxies
    /\ UNCHANGED <<heap, lock, running, refresh_task, task, startPc, stopWait,
                   now, max_proxies, ret, lim, batch>>

add_proxy(o) ==
    /\ ~lock
    /\ LET key == _proxy_key(o)
       IN  proxies' = IF proxies[key] = NoObj /\ size < max_proxies
                      THEN [proxies EXCEPT ![key] = o]
                      ELSE proxies
    /\ UNCHANGED <<heap, lock, running, refresh_task, task, startPc, stopWait,
                   now, max_proxies, ret, lim, batch>>

\* remove_proxy that returns with the lock held when the key is absent
remove_proxy_KeepsLock(o) ==
    /\ ~lock
    /\ LET key == _proxy_key(o)
       IN  /\ proxies' = [proxies EXCEPT ![key] = NoObj]
           /\ lock' = (proxies[key] = NoObj)
    /\ UNCHANGED <<heap, running, refresh_task, task, startPc, stopWait,
                   now, max_proxies, ret, lim, batch>>

remove_proxy(o) ==
    /\ ~lock
    /\ LET key == _proxy_key(o)
       IN  proxies' = [proxies EXCEPT ![key] = NoObj]
    /\ UNCHANGED <<heap, lock, running, refresh_task, task, startPc, stopWait,
                   now, max_proxies, ret, lim, batch>>

\* --------------------------------------------------- _refresh_proxies
\* the moving average that always averages, also from no earlier value
check_success_AlwaysAverages(r, response_time) ==
    [r EXCEPT !.avg_response_time = (@ * 7 + response_time * 3) \div 10,
              !.last_check_time = now]

\* ProxyChecker.check on a response with status 200 that took response_time:
\* the moving average and last_check_time
check_success(r, response_time) ==
    [r EXCEPT !.avg_response_time =
                  IF @ > 0 THEN (@ * 7 + response_time * 3) \div 10
                  ELSE response_time,
              !.last_check_time = now]

\* ProxyChecker.check of the pool's refresh: a probe that succeeds after
\* SAMPLE_DS
Check(r) == check_success(r, SAMPLE_DS)

Range(q) == {q[i] : i \in 1 .. Len(q)}

\* the objects fetcher.fetch() can return: ProxyInfo objects it has just
\* created, so none of them is an object the dict holds
Candidates == lim.objs \ StoredObjs

\* the lists check_batch can return: the candidates that passed, in the order
\* their probes completed
ValidLists ==
    {q \in UNION {[1 .. n -> Candidates] : n \in 0 .. MaxFetch} :
        \A i, j \in 1 .. Len(q) : i # j => q[i] # q[j]}

\* the loop of _refresh_proxies without "key not in self._proxies"
RECURSIVE InsertAll_Replaces(_, _)
InsertAll_Replaces(q, p) ==
    IF q = <<>> THEN p
    ELSE LET key == _proxy_key(Head(q))
             n == Cardinality({k \in Keys : p[k] # NoObj})
         IN  InsertAll_Replaces(Tail(q),
                                IF p[key] # NoObj \/ n < max_proxies
                                THEN [p EXCEPT ![key] = Head(q)]
                                ELSE p)

\* the loop "for proxy in valid_proxies" of _refresh_proxies, from dict p
RECURSIVE InsertAll(_, _)
InsertAll(q, p) ==
    IF q = <<>> THEN p
    ELSE LET key == _proxy_key(Head(q))
             n == Cardinality({k \in Keys : p[k] # NoObj})
         IN  InsertAll(Tail(q),
                       IF p[key] = NoObj /\ n < max_proxies
                       THEN [p EXCEPT ![key] = Head(q)]
                       ELSE p)

\* check_batch returns valid_proxies and the critical section adds them
RefreshInsert(valid) ==
    /\ ~lock
    /\ heap' = [o \in Objs |->
                   IF o \in Range(valid) THEN Check(NewProxyInfo(now)) ELSE heap[o]]
    /\ proxies' = InsertAll(valid, proxies)

\* ---------------------------------------------------------- get_stats
\* a score as the fraction num / den of thousandths
ScoreOf(o) == [num |-> ScoreNum(heap[o]), den |-> ScoreDen(heap[o])]

\* sum(scores)
RECURSIVE SumScores(_)
SumScores(S) ==
    IF S = {} THEN [num |-> 0, den |-> 1]
    ELSE LET o == CHOOSE x \in S : TRUE
             rest == SumScores(S \ {o})
         IN  [num |-> ScoreOf(o).num * rest.den + rest.num * ScoreOf(o).den,
              den |-> ScoreOf(o).den * rest.den]

\* sum(p.success_count for p in proxies)
RECURSIVE SumSuccess(_)
SumSuccess(S) ==
    IF S = {} THEN 0
    ELSE LET o == CHOOSE x \in S : TRUE
         IN  heap[o].success_count + SumSuccess(S \ {o})

\* sum(p.fail_count for p in proxies)
RECURSIVE SumFail(_)
SumFail(S) ==
    IF S = {} THEN 0
    ELSE LET o == CHOOSE x \in S : TRUE
         IN  heap[o].fail_count + SumFail(S \ {o})

\* the dict get_stats() returns; it takes no lock and awaits nothing
get_stats ==
    IF StoredKeys = {}
    THEN [total |-> 0,
          avg_score |-> [num |-> 0, den |-> 1],
          max_score |-> [num |-> 0, den |-> 1],
          min_score |-> [num |-> 0, den |-> 1]]
    ELSE LET sum == SumScores(StoredObjs)
             hi == CHOOSE o \in StoredObjs : \A p \in StoredObjs :
                       ScoreOf(p).num * ScoreOf(o).den <= ScoreOf(o).num * ScoreOf(p).den
             lo == CHOOSE o \in StoredObjs : \A p \in StoredObjs :
                       ScoreOf(o).num * ScoreOf(p).den <= ScoreOf(p).num * ScoreOf(o).den
         IN  [total |-> Cardinality(StoredObjs),
              avg_score |-> [num |-> sum.num, den |-> sum.den * Cardinality(StoredObjs)],
              max_score |-> ScoreOf(hi),
              min_score |-> ScoreOf(lo),
              total_success |-> SumSuccess(StoredObjs),
              total_fail |-> SumFail(StoredObjs)]

\* ------------------------------------------------------ start / stop
TasksCreated == Cardinality({t \in TaskIds : task[t].pc # "none"})
StartsInFlight == Cardinality({i \in StartIds : startPc[i] # "idle"})
LiveTasks == {t \in TaskIds : task[t].pc \notin {"none", "done"}}

\* start() up to its first suspension, in fetcher.fetch()
start(i) ==
    /\ startPc[i] = "idle"
    /\ \A j \in StartIds : j < i => startPc[j] # "idle"
    /\ IF running
       THEN UNCHANGED <<running, startPc, lim, batch>>
       ELSE /\ TasksCreated + StartsInFlight < lim.tasks
            /\ running' = TRUE
            /\ startPc' = [startPc EXCEPT ![i] = "fetch"]
    /\ UNCHANGED <<heap, proxies, lock, refresh_task, task, stopWait, now,
                   max_proxies, ret, lim, batch>>

\* asyncio.create_task(self._refresh_loop()) and the return of start()
StartLaunch(i) ==
    LET t == TasksCreated + 1
    IN  /\ task' = [task EXCEPT ![t].pc = "new"]
        /\ refresh_task' = t
        /\ startPc' = [startPc EXCEPT ![i] = "idle"]

\* the initial refresh without "except Exception": a fetch that raises ends
\* start() before it creates the loop task
start_fetched_Propagates(i, ok) ==
    /\ startPc[i] = "fetch"
    /\ startPc' = [startPc EXCEPT ![i] = IF ok THEN "check" ELSE "idle"]
    /\ UNCHANGED <<heap, proxies, lock, running, refresh_task, task, stopWait,
                   now, max_proxies, ret, lim, batch>>

\* fetch() returned to the initial refresh: ok is FALSE when it raised or
\* returned an empty list, and the refresh is over
start_fetched(i, ok) ==
    /\ startPc[i] = "fetch"
    /\ IF ok
       THEN /\ startPc' = [startPc EXCEPT ![i] = "check"]
            /\ UNCHANGED <<task, refresh_task, lim, batch>>
       ELSE StartLaunch(i)
    /\ UNCHANGED <<heap, proxies, lock, running, stopWait, now, max_proxies,
                   ret, lim, batch>>

\* check_batch() returned to the initial refresh
start_checked(i, valid) ==
    /\ startPc[i] = "check"
    /\ RefreshInsert(valid)
    /\ StartLaunch(i)
    /\ UNCHANGED <<lock, running, stopWait, now, max_proxies, ret, lim, batch>>

\* check_batch() raised into the initial refresh: "except Exception" of
\* _refresh_proxies logs it and start() goes on
start_check_failed(i) ==
    /\ startPc[i] = "check"
    /\ StartLaunch(i)
    /\ UNCHANGED <<heap, proxies, lock, running, stopWait, now, max_proxies,
                   ret, lim, batch>>

\* stop() without its test of self._running
stop_NoRunningTest(s) ==
    /\ stopWait[s] = NoTask
    /\ s <= lim.stops
    /\ \A j \in StopIds : j < s => stopWait[j] # NoTask
    /\ running' = FALSE
    /\ IF refresh_task = NoTask \/ task[refresh_task].pc = "done"
       THEN UNCHANGED <<task, stopWait>>
       ELSE /\ task' = [task EXCEPT ![refresh_task].cancel = TRUE]
            /\ stopWait' = [stopWait EXCEPT ![s] = refresh_task]
    /\ UNCHANGED <<heap, proxies, lock, refresh_task, startPc, now,
                   max_proxies, ret, lim, batch>>

\* stop() up to its await of the loop task; awaiting a task that is done
\* does not suspend
stop(s) ==
    /\ stopWait[s] = NoTask
    /\ s <= lim.stops
    /\ \A j \in StopIds : j < s => stopWait[j] # NoTask
    /\ IF ~running
       THEN UNCHANGED <<running, task, stopWait, lim, batch>>
       ELSE /\ running' = FALSE
            /\ IF refresh_task = NoTask \/ task[refresh_task].pc = "done"
               THEN UNCHANGED <<task, stopWait, lim, batch>>
               ELSE /\ task' = [task EXCEPT ![refresh_task].cancel = TRUE]
                    /\ stopWait' = [stopWait EXCEPT ![s] = refresh_task]
    /\ UNCHANGED <<heap, proxies, lock, refresh_task, startPc, now,
                   max_proxies, ret, lim, batch>>

\* the awaited task is done: stop() returns
stop_resumed(s) ==
    /\ stopWait[s] # NoTask
    /\ task[stopWait[s]].pc = "done"
    /\ stopWait' = [stopWait EXCEPT ![s] = NoTask]
    /\ UNCHANGED <<heap, proxies, lock, running, refresh_task, task, startPc,
                   now, max_proxies, ret, lim, batch>>

\* ------------------------------------------------------ _refresh_loop
\* "while self._running": sleep again, or leave the loop
LoopTop(t) ==
    task' = [task EXCEPT ![t].pc = IF running THEN "sleep" ELSE "done"]

\* the task runs for the first time
loop_started(t) ==
    /\ task[t].pc = "new"
    /\ ~task[t].cancel
    /\ LoopTop(t)
    /\ UNCHANGED <<heap, proxies, lock, running, refresh_task, startPc,
                   stopWait, now, max_proxies, ret, lim, batch>>

_cleanup_stale_proxies ==
    /\ ~lock
    /\ proxies' = [k \in Keys |->
                     IF proxies[k] # NoObj /\ is_stale(heap[proxies[k]])
                     THEN NoObj ELSE proxies[k]]

\* the iteration that cleans up whatever size is and never refreshes
loop_woke_NeverRefreshes(t) ==
    /\ task[t].pc = "sleep"
    /\ ~task[t].cancel
    /\ _cleanup_stale_proxies
    /\ LoopTop(t)
    /\ UNCHANGED <<heap, lock, running, refresh_task, startPc, stopWait, now,
                   max_proxies, ret, lim, batch>>

\* the iteration that cleans up before it refreshes
loop_woke_Both(t) ==
    /\ task[t].pc = "sleep"
    /\ ~task[t].cancel
    /\ _cleanup_stale_proxies
    /\ IF size < min_proxies
       THEN task' = [task EXCEPT ![t].pc = "fetch"]
       ELSE LoopTop(t)
    /\ UNCHANGED <<heap, lock, running, refresh_task, startPc, stopWait, now,
                   max_proxies, ret, lim, batch>>

\* the iteration that takes the lock before the refresh awaits fetch()
loop_woke_HoldsLock(t) ==
    /\ task[t].pc = "sleep"
    /\ ~task[t].cancel
    /\ ~lock
    /\ IF size < min_proxies
       THEN /\ task' = [task EXCEPT ![t].pc = "fetch"]
            /\ lock' = TRUE
            /\ UNCHANGED proxies
       ELSE /\ _cleanup_stale_proxies
            /\ LoopTop(t)
            /\ UNCHANGED lock
    /\ UNCHANGED <<heap, running, refresh_task, startPc, stopWait, now,
                   max_proxies, ret, lim, batch>>

\* asyncio.sleep(check_interval) is over: refresh or clean up
loop_woke(t) ==
    /\ task[t].pc = "sleep"
    /\ ~task[t].cancel
    /\ IF size < min_proxies
       THEN /\ task' = [task EXCEPT ![t].pc = "fetch"]
            /\ UNCHANGED proxies
       ELSE /\ _cleanup_stale_proxies
            /\ LoopTop(t)
    /\ UNCHANGED <<heap, lock, running, refresh_task, startPc, stopWait, now,
                   max_proxies, ret, lim, batch>>

loop_fetched(t, ok) ==
    /\ task[t].pc = "fetch"
    /\ ~task[t].cancel
    /\ IF ok
       THEN task' = [task EXCEPT ![t].pc = "check"]
       ELSE LoopTop(t)
    /\ UNCHANGED <<heap, proxies, lock, running, refresh_task, startPc,
                   stopWait, now, max_proxies, ret, lim, batch>>

loop_checked(t, valid) ==
    /\ task[t].pc = "check"
    /\ ~task[t].cancel
    /\ RefreshInsert(valid)
    /\ LoopTop(t)
    /\ UNCHANGED <<lock, running, refresh_task, startPc, stopWait, now,
                   max_proxies, ret, lim, batch>>

\* check_batch() raised into the loop's refresh: "except Exception" of
\* _refresh_proxies logs it and the iteration is over
loop_check_failed(t) ==
    /\ task[t].pc = "check"
    /\ ~task[t].cancel
    /\ LoopTop(t)
    /\ UNCHANGED <<heap, proxies, lock, running, refresh_task, startPc,
                   stopWait, now, max_proxies, ret, lim, batch>>

\* the loop without its "except Exception": the exception ends the task
loop_raised_Unhandled(t) ==
    /\ task[t].pc = "sleep"
    /\ ~task[t].cancel
    /\ task' = [task EXCEPT ![t].pc = "done"]
    /\ UNCHANGED <<heap, proxies, lock, running, refresh_task, startPc,
                   stopWait, now, max_proxies, ret, lim, batch>>

\* an Exception (a MemoryError, say) is raised in the try block after the
\* sleep, before the iteration has written anything: "except Exception" of
\* the loop logs it and sleeps 60 seconds
loop_raised(t) ==
    /\ task[t].pc = "sleep"
    /\ ~task[t].cancel
    /\ task' = [task EXCEPT ![t].pc = "backoff"]
    /\ UNCHANGED <<heap, proxies, lock, running, refresh_task, startPc,
                   stopWait, now, max_proxies, ret, lim, batch>>

\* asyncio.sleep(60) of the handler is over: back to "while self._running"
loop_backoff_over(t) ==
    /\ task[t].pc = "backoff"
    /\ ~task[t].cancel
    /\ LoopTop(t)
    /\ UNCHANGED <<heap, proxies, lock, running, refresh_task, startPc,
                   stopWait, now, max_proxies, ret, lim, batch>>

\* CancelledError is thrown into the task at the await where it is suspended
\* (or before its first step) and ends the task
loop_cancelled(t) ==
    /\ task[t].pc \in {"new", "sleep", "fetch", "check", "backoff"}
    /\ task[t].cancel
    /\ task' = [task EXCEPT ![t].pc = "done"]
    /\ UNCHANGED <<heap, proxies, lock, running, refresh_task, startPc,
                   stopWait, now, max_proxies, ret, lim, batch>>

\* time passes
Tick ==
    /\ now < lim.time
    /\ now' = now + 1
    /\ UNCHANGED <<heap, proxies, lock, running, refresh_task, task, startPc,
                   stopWait, max_proxies, ret, lim, batch>>

Next ==
    \/ get_proxy
    \/ \E o \in lim.objs, success \in BOOLEAN : return_proxy(o, success)
    \/ \E o \in lim.objs : add_proxy(o)
    \/ \E o \in lim.objs : remove_proxy(o)
    \/ \E i \in StartIds : start(i)
    \/ \E i \in StartIds, ok \in BOOLEAN : start_fetched(i, ok)
    \/ \E i \in StartIds, valid \in ValidLists : start_checked(i, valid)
    \/ \E i \in StartIds : start_check_failed(i)
    \/ \E s \in StopIds : stop(s)
    \/ \E s \in StopIds : stop_resumed(s)
    \/ \E t \in TaskIds : loop_started(t)
    \/ \E t \in TaskIds : loop_woke(t)
    \/ \E t \in TaskIds, ok \in BOOLEAN : loop_fetched(t, ok)
    \/ \E t \in TaskIds, valid \in ValidLists : loop_checked(t, valid)
    \/ \E t \in TaskIds : loop_check_failed(t)
    \/ \E t \in TaskIds : loop_raised(t)
    \/ \E t \in TaskIds : loop_backoff_over(t)
    \/ \E t \in TaskIds : loop_cancelled(t)
    \/ Tick

Init ==
    InitWith(PoolMaxProxies,
             [objs |-> {1}, tasks |-> PoolTasks, stops |-> PoolStopCalls,
              samples |-> PoolSamples, time |-> PoolTime,
              min_proxies |-> MinProxies])

Spec == Init /\ [][Next]_vars

\* the same program with one record that is hardly used
InitLoop ==
    InitWith(PoolMaxProxies,
             [objs |-> {1}, tasks |-> PoolTasks, stops |-> PoolStopCalls,
              samples |-> LoopSamples, time |-> PoolTime,
              min_proxies |-> MinProxies])

SpecLoop == InitLoop /\ [][Next]_vars

\* what the event loop and the environment guarantee: a coroutine that can
\* run does run, every sleep ends, fetch() and check_batch() return or raise,
\* and the exceptions raised into an iteration are transient (an iteration
\* that can run without one eventually does)
Fairness ==
    /\ \A i \in StartIds :
           /\ WF_vars(\E ok \in BOOLEAN : start_fetched(i, ok))
           /\ WF_vars((\E valid \in ValidLists : start_checked(i, valid))
                          \/ start_check_failed(i))
    /\ \A t \in TaskIds :
           /\ WF_vars(loop_started(t))
           /\ SF_vars(loop_woke(t))
           /\ WF_vars(\E ok \in BOOLEAN : loop_fetched(t, ok))
           /\ WF_vars((\E valid \in ValidLists : loop_checked(t, valid))
                          \/ loop_check_failed(t))
           /\ WF_vars(loop_backoff_over(t))
           /\ WF_vars(loop_cancelled(t))

SpecFair == Init /\ [][Next]_vars /\ Fairness

\* the same program with two records in use
InitTwo ==
    InitWith(TwoMaxProxies,
             [objs |-> {1, 3}, tasks |-> PoolTasks, stops |-> PoolStopCalls,
              samples |-> TwoSamples, time |-> PoolTime,
              min_proxies |-> MinProxies])

SpecTwo == InitTwo /\ [][Next]_vars

\* the same program with more endpoints in use than the pool may hold
InitCap ==
    InitWith(CapMaxProxies,
             [objs |-> {1, 2, 3}, tasks |-> PoolTasks, stops |-> PoolStopCalls,
              samples |-> CapSamples, time |-> PoolTime,
              min_proxies |-> MinProxies])

SpecCap == InitCap /\ [][Next]_vars

\* the same program with min_proxies = 2, followed until records are stale
InitStale ==
    InitWith(StaleMaxProxies,
             [objs |-> {1, 3}, tasks |-> PoolTasks, stops |-> PoolStopCalls,
              samples |-> StaleSamples, time |-> StaleTime,
              min_proxies |-> StaleMinProxies])

SpecStale == InitStale /\ [][Next]_vars

\* the same pool under the guarantees of the event loop, where, besides,
\* time passes as long as the run follows it
InitStaleFair ==
    InitWith(StaleMaxProxies,
             [objs |-> {1, 3}, tasks |-> PoolTasks, stops |-> PoolStopCalls,
              samples |-> StaleFairSamples, time |-> StaleTime,
              min_proxies |-> StaleMinProxies])

SpecStaleFair == InitStaleFair /\ [][Next]_vars /\ Fairness /\ WF_vars(Tick)

\* the same program, followed through its lifecycle
InitLife ==
    InitWith(LifeMaxProxies,
             [objs |-> {1}, tasks |-> MaxTasks, stops |-> MaxStopCalls,
              samples |-> LifeSamples, time |-> LifeTime,
              min_proxies |-> MinProxies])

SpecLife == InitLife /\ [][Next]_vars

\* the records a caller constructs, ProxyInfo(host, port, success_count=...,
\* fail_count=..., avg_response_time=...), at time 0
RecInputs ==
    [success_count : (0 .. RecMaxSuccess) \cup {RecManySuccesses},
     fail_count : 0 .. RecMaxFail,
     avg_response_time : {k * RecLatencyStep : k \in 0 .. RecLatencies},
     last_check_time : {0},
     last_use_time : {0}]

\* the state after ProxyPool(...) and add_proxy of one such record, object 2;
\* the callers name its endpoint by a ProxyInfo of their own, object 1
InitRec ==
    \E r \in RecInputs :
        /\ heap = [o \in Objs |-> IF o = 2 THEN r ELSE NewProxyInfo(0)]
        /\ proxies = [k \in Keys |-> IF k = _proxy_key(2) THEN 2 ELSE NoObj]
        /\ lock = FALSE
        /\ running = FALSE
        /\ refresh_task = NoTask
        /\ task = [t \in TaskIds |-> [pc |-> "none", cancel |-> FALSE]]
        /\ startPc = [i \in StartIds |-> "idle"]
        /\ stopWait = [s \in StopIds |-> NoTask]
        /\ now = 0
        /\ max_proxies = PoolMaxProxies
        /\ ret = NoCall
        /\ lim = [objs |-> {1}, tasks |-> PoolTasks, stops |-> PoolStopCalls,
                  samples |-> r.success_count + r.fail_count + RecSamples,
                  time |-> PoolTime, min_proxies |-> MinProxies]
        /\ batch = NoBatch(ProxyChecker)

SpecRec == InitRec /\ [][Next]_vars

\* ------------------------------------------------- check_batch on its own
\* what "await client.get(url)" gives: a response with a status code, or an
\* exception (Raised)
Statuses == {HTTP_OK, OtherStatus}
Responses == Statuses \cup {Raised}

\* the values "time.time() - start_time" takes
ResponseTimes == {k * SAMPLE_DS : k \in 0 .. BatchSamples}

Checkers == {ProxyChecker} \cup {TargetSiteChecker(e) : e \in Statuses}

\* the lists a caller passes: ProxyInfo objects, none of them twice
InputLists ==
    {q \in UNION {[1 .. n -> lim.objs] : n \in 0 .. MaxBatch} :
        \A i, j \in 1 .. Len(q) : i # j => q[i] # q[j]}

Concurrencies == 0 .. MaxConcurrency

\* "if response.status_code == 200" of check, which TargetSiteChecker
\* inherits: the checker c is not consulted
StatusAccepted(c, response) == response = HTTP_OK

\* check_batch(proxies, concurrency) up to "await asyncio.gather(*tasks)"
check_batch(q, c) ==
    /\ batch.pc = "idle"
    /\ batch' = [batch EXCEPT
                     !.pc = "gather", !.proxies = q, !.concurrency = c,
                     !.semaphore = c,
                     !.one = [i \in 1 .. Len(q) |->
                                 [pc |-> "wait", url |-> 0, is_valid |-> FALSE]]]
    /\ UNCHANGED <<heap, proxies, lock, running, refresh_task, task, startPc,
                   stopWait, now, max_proxies, ret, lim>>

\* check_one that enters without a permit of the semaphore
check_one_enter_NoSemaphore(i, client_ok) ==
    /\ batch.pc = "gather"
    /\ i \in DOMAIN batch.one
    /\ batch.one[i].pc = "wait"
    /\ IF client_ok
       THEN batch' = [batch EXCEPT
                          !.semaphore = @ - 1,
                          !.one[i] = [pc |-> "get", url |-> 1, is_valid |-> FALSE]]
       ELSE batch' = [batch EXCEPT
                          !.one[i] = [pc |-> "done", url |-> 0, is_valid |-> FALSE],
                          !.checked_count = @ + 1]
    /\ UNCHANGED <<heap, proxies, lock, running, refresh_task, task, startPc,
                   stopWait, now, max_proxies, ret, lim>>

\* check_one(proxies[i]) gets a permit of the semaphore and check() runs up
\* to its first "await client.get(url)"; client_ok is FALSE when the client
\* cannot be made of proxy.url: check() returns False at once and the permit
\* is given back in the same step
check_one_enter(i, client_ok) ==
    /\ batch.pc = "gather"
    /\ i \in DOMAIN batch.one
    /\ batch.one[i].pc = "wait"
    /\ batch.semaphore > 0
    /\ IF client_ok
       THEN batch' = [batch EXCEPT
                          !.semaphore = @ - 1,
                          !.one[i] = [pc |-> "get", url |-> 1, is_valid |-> FALSE]]
       ELSE batch' = [batch EXCEPT
                          !.one[i] = [pc |-> "done", url |-> 0, is_valid |-> FALSE],
                          !.checked_count = @ + 1]
    /\ UNCHANGED <<heap, proxies, lock, running, refresh_task, task, startPc,
                   stopWait, now, max_proxies, ret, lim>>

\* "await client.get(url)" of check(proxies[i]) is over, response_time after
\* start_time: a 200 updates the record and check() returns True; anything
\* else goes on to the next URL, or returns False after the last one; when
\* check() has returned, check_one counts, appends and releases the permit
check_responded(i, response, response_time) ==
    /\ batch.pc = "gather"
    /\ i \in DOMAIN batch.one
    /\ batch.one[i].pc = "get"
    /\ LET proxy == batch.proxies[i]
       IN  IF StatusAccepted(batch.checker, response)
           THEN /\ heap' = [heap EXCEPT ![proxy] = check_success(@, response_time)]
                /\ batch' = [batch EXCEPT
                                 !.one[i].pc = "done",
                                 !.one[i].is_valid = TRUE,
                                 !.checked_count = @ + 1,
                                 !.valid_proxies = Append(@, proxy),
                                 !.semaphore = @ + 1]
           ELSE /\ heap' = heap
                /\ IF batch.one[i].url < batch.checker.check_urls
                   THEN batch' = [batch EXCEPT !.one[i].url = @ + 1]
                   ELSE batch' = [batch EXCEPT
                                      !.one[i].pc = "done",
                                      !.checked_count = @ + 1,
                                      !.semaphore = @ + 1]
    /\ UNCHANGED <<proxies, lock, running, refresh_task, task, startPc,
                   stopWait, now, max_proxies, ret, lim>>

\* gather is over: the final log line divides by len(proxies), which raises
\* ZeroDivisionError for an empty list; otherwise valid_proxies is returned
check_batch_returned ==
    /\ batch.pc = "gather"
    /\ \A i \in DOMAIN batch.one : batch.one[i].pc = "done"
    /\ IF Len(batch.proxies) = 0
       THEN batch' = [batch EXCEPT !.pc = "raised"]
       ELSE batch' = [batch EXCEPT !.pc = "returned",
                                   !.result = batch.valid_proxies]
    /\ UNCHANGED <<heap, proxies, lock, running, refresh_task, task, startPc,
                   stopWait, now, max_proxies, ret, lim>>

NextBatch ==
    \/ \E q \in InputLists, c \in Concurrencies : check_batch(q, c)
    \/ \E i \in 1 .. MaxBatch, client_ok \in BOOLEAN : check_one_enter(i, client_ok)
    \/ \E i \in 1 .. MaxBatch, response \in Responses,
          response_time \in ResponseTimes :
           check_responded(i, response, response_time)
    \/ check_batch_returned
    \/ Tick

\* a checker of either class, and three records at time 0: object 2 has been
\* used and checked before, the others are new
InitBatch ==
    /\ heap = [o \in Objs |->
                  IF o = 2
                  THEN [NewProxyInfo(0) EXCEPT !.success_count = 1,
                                               !.fail_count = 1,
                                               !.avg_response_time = SAMPLE_DS]
                  ELSE NewProxyInfo(0)]
    /\ proxies = [k \in Keys |-> NoObj]
    /\ lock = FALSE
    /\ running = FALSE
    /\ refresh_task = NoTask
    /\ task = [t \in TaskIds |-> [pc |-> "none", cancel |-> FALSE]]
    /\ startPc = [i \in StartIds |-> "idle"]
    /\ stopWait = [s \in StopIds |-> NoTask]
    /\ now = 0
    /\ max_proxies = PoolMaxProxies
    /\ ret = NoCall
    /\ lim = [objs |-> Objs, tasks |-> 0, stops |-> 0, samples |-> 0,
              time |-> BatchTime, min_proxies |-> MinProxies]
    /\ \E c \in Checkers : batch = NoBatch(c)

SpecBatch == InitBatch /\ [][NextBatch]_vars

\* ====================================================== the claims
\* what a get_proxy() call can return, or leave in ret
Results == Objs \cup {NoneVal, Raised, NoCall}

\* the eviction condition as the specification words it, on record r
LowQuality(r) ==
    /\ r.fail_count >= 3
    /\ r.success_count + r.fail_count >= 5
    /\ ScoreNum(r) < 300 * ScoreDen(r)

\* get_proxy() can return r in the current state
CanReturn(r) == ENABLED (get_proxy /\ ret' = r)

\* C1: a failed return_proxy that leaves the stored record with
\* fail_count >= max_fail_count, at least 5 samples and a score below
\* score_threshold removes the record in the same step: size drops by one
\* and get_proxy cannot return it afterwards.  Stated as: no reachable state
\* has a failed return_proxy step that leaves such a record stored.
C1_EvictedOnFailure ==
    \A o \in Objs :
        LET key == _proxy_key(o)
            stored_proxy == proxies[key]
        IN  stored_proxy # NoObj =>
                ~ ENABLED (/\ return_proxy(o, FALSE)
                           /\ LowQuality(heap'[stored_proxy])
                           /\ ~ (/\ proxies'[key] = NoObj
                                 /\ size' = size - 1
                                 /\ stored_proxy \notin get_results'))

\* a record that only failed, five times, with a ten second latency, is out
C1_Witness ==
    \E o \in Objs :
        /\ heap[o].success_count = 0
        /\ heap[o].fail_count = 5
        /\ heap[o].avg_response_time = SAMPLE_DS
        /\ proxies[_proxy_key(o)] = NoObj

\* C2: return_proxy removes a record only when it is a failed call that
\* leaves that record with fail_count >= max_fail_count, at least 5 samples
\* and a score below score_threshold; a successful call removes nothing and
\* a record with fewer than 5 samples stays however low its score.  Stated
\* as: no reachable state has a return_proxy step that takes a record out of
\* the dict in any other case.
C2_EvictedOnlyWhenLowQuality ==
    \A o \in Objs, success \in BOOLEAN :
        StoredKeys # {} =>
            ~ ENABLED (/\ return_proxy(o, success)
                       /\ \E k \in StoredKeys :
                             /\ proxies'[k] # proxies[k]
                             /\ ~ (/\ k = _proxy_key(o)
                                   /\ ~success
                                   /\ proxies'[k] = NoObj
                                   /\ LowQuality(heap'[proxies[k]])))

\* four failures and no success at a ten second latency: score 0, still stored
C2_Witness ==
    \E o \in Objs :
        /\ proxies[_proxy_key(o)] = o
        /\ heap[o].success_count = 0
        /\ heap[o].fail_count = 4
        /\ heap[o].avg_response_time = SAMPLE_DS

\* C3: in no state that any interleaving of get_proxy, return_proxy,
\* remove_proxy and the maintenance steps reaches can get_proxy return a
\* record that is not the one stored under its key when get_proxy completes.
C3_NoUseAfterEvict ==
    \A r \in Objs :
        ~ ENABLED (/\ get_proxy
                   /\ ret' = r
                   /\ proxies'[_proxy_key(r)] # r)

\* a record has been evicted after three failures in five uses, get_proxy
\* can run and its latest call returned None
C3_Witness ==
    \E e \in Objs :
        /\ proxies[_proxy_key(e)] = NoObj
        /\ heap[e].fail_count = 3
        /\ heap[e].success_count = 2
        /\ LowQuality(heap[e])
        /\ ENABLED get_proxy
        /\ ret = NoneVal

\* loop tasks that are alive and on which cancel() was not called
UncancelledTasks == {t \in LiveTasks : ~task[t].cancel}

\* C4: at every moment at most one loop task exists (tasks that stop() has
\* already cancelled are not even counted).
C4_OneLoopTask == Cardinality(UncancelledTasks) <= 1

\* a step in which a stop() call returns
StopReturns ==
    \E s \in StopIds :
        \/ stop(s) /\ stopWait'[s] = NoTask
        \/ stop_resumed(s)

\* C5: when a stop() call returns, no loop task is alive.  Stated as: no
\* reachable state has a step in which a stop() call returns and leaves a
\* loop task alive.
C5_StopWaitsForLoop == ~ ENABLED (StopReturns /\ LiveTasks' # {})

\* _running is False and no stop() call is still awaiting: the last call
\* that wrote _running was a stop(), it has returned, and start() was not
\* called since
StoppedAndQuiet ==
    /\ ~running
    /\ \A s \in StopIds : stopWait[s] = NoTask

\* a maintenance step: the insert of a refresh, or the loop's cleanup
MaintenanceStep ==
    \/ \E i \in StartIds, valid \in ValidLists : start_checked(i, valid)
    \/ \E t \in TaskIds, valid \in ValidLists : loop_checked(t, valid)
    \/ \E t \in TaskIds : loop_woke(t)

\* C6: after a stop() has returned and until start() is called again, no
\* maintenance step changes the record collection.
C6_QuietAfterStop ==
    [][(StoppedAndQuiet /\ MaintenanceStep) => proxies' = proxies]_vars

\* C7: stop() on a pool that is not running returns at once and changes
\* neither _running, nor the task handle, nor any task, nor the records.
C7_StopIdempotent ==
    \A s \in StopIds :
        ~ ENABLED (/\ stop(s)
                   /\ ~running
                   /\ ~ (/\ stopWait'[s] = NoTask
                         /\ UNCHANGED <<running, refresh_task, task, proxies, heap>>))

\* a pool that was started and then stopped, its loop task done: one more
\* stop() here is the second of stop(); stop()
C7_Witness ==
    /\ StoppedAndQuiet
    /\ refresh_task # NoTask
    /\ task[refresh_task].pc = "done"

\* C8: on an empty collection get_proxy can always run at once (the lock is
\* free, it waits for nothing) and None is the only thing it can return,
\* stopped or running, with or without a refresh in progress.
C8_EmptyGivesNone ==
    StoredKeys = {} =>
        /\ ENABLED get_proxy
        /\ \A r \in Results : CanReturn(r) => r = NoneVal

\* None was returned from an empty, running pool with a refresh in progress
C8_Witness ==
    /\ StoredKeys = {}
    /\ ret = NoneVal
    /\ running
    /\ \E t \in TaskIds : task[t].pc \in {"fetch", "check"}

\* C9: on a non-empty pool get_proxy can return exactly the stored records:
\* every stored record has a positive weight, a record of score 0 included,
\* and nothing else can be returned.
C9_ResultsAreTheStored ==
    StoredKeys # {} =>
        /\ {r \in Results : CanReturn(r)} = StoredObjs
        /\ \A o \in StoredObjs : Weight(heap[o]) > 0

\* a record of score 0 was returned while another record was stored
C9_Witness ==
    \E o \in StoredObjs :
        /\ ret = o
        /\ ScoreNum(heap[o]) = 0
        /\ size >= 2

\* C10: return_proxy for an identity that is not stored changes nothing:
\* neither the collection nor any record, the caller's object included.
C10_ReleaseOfAbsentIsNoOp ==
    \A o \in Objs, success \in BOOLEAN :
        proxies[_proxy_key(o)] = NoObj =>
            ~ ENABLED (return_proxy(o, success) /\ ~ UNCHANGED vars)

\* the caller holds a record get_proxy returned and it is no longer stored
C10_Witness ==
    /\ ret \in Objs
    /\ proxies[_proxy_key(ret)] = NoObj

\* C11: no return_proxy update is lost.  Every return_proxy on a stored
\* record adds exactly one to success_count (success) or to fail_count
\* (failure) of the stored record, on top of whatever the calls before it
\* wrote, and changes no other counter of any record; so after any
\* interleaving of k calls the counters are the initial ones plus the number
\* of successes and of failures.
C11_NoLostUpdate ==
    \A o \in Objs, success \in BOOLEAN :
        LET stored_proxy == proxies[_proxy_key(o)]
            r == heap[stored_proxy]
        IN  stored_proxy # NoObj =>
                ~ ENABLED (/\ return_proxy(o, success)
                           /\ ~ (/\ heap'[stored_proxy] =
                                      IF success
                                      THEN [r EXCEPT !.success_count = r.success_count + 1]
                                      ELSE [r EXCEPT !.fail_count = r.fail_count + 1]
                                 /\ \A x \in Objs \ {stored_proxy} : heap'[x] = heap[x]))

\* a stored record after two successes and two failures
C11_Witness ==
    \E o \in StoredObjs :
        /\ heap[o].success_count = 2
        /\ heap[o].fail_count = 2

\* a step in which a refresh, of start() or of the loop, adds its valid
\* candidates
RefreshInsertStep ==
    \/ \E i \in StartIds, valid \in ValidLists : start_checked(i, valid)
    \/ \E t \in TaskIds, valid \in ValidLists : loop_checked(t, valid)

\* C12: in every reachable state size <= max_proxies, and at capacity
\* neither add_proxy nor the insert of a refresh changes the collection
\* (add_proxy changes nothing at all).
C12_Capacity ==
    /\ size <= max_proxies
    /\ \A o \in Objs :
           ~ ENABLED (add_proxy(o) /\ size >= max_proxies /\ ~ UNCHANGED vars)
    /\ ~ ENABLED (RefreshInsertStep /\ size >= max_proxies /\ proxies' # proxies)

\* the pool is full and a candidate of another endpoint, which a refresh
\* has validated, is not stored
C12_Witness ==
    /\ size = max_proxies
    /\ \E o \in Objs :
           /\ proxies[_proxy_key(o)] = NoObj
           /\ heap[o].avg_response_time = SAMPLE_DS
           /\ heap[o].last_check_time = now

\* C13: add_proxy and remove_proxy are idempotent and go by the key.
\* add_proxy of a key that is stored changes nothing (the caller's object
\* does not replace the stored one), remove_proxy of a key that is not stored
\* changes nothing; after add_proxy the key is stored or nothing has changed,
\* after remove_proxy the key is not stored, whichever object of that key was
\* passed, so a second call of the same kind is one of those no-ops.
C13_AddRemoveIdempotent ==
    \A o \in Objs :
        LET key == _proxy_key(o)
        IN  /\ ~ ENABLED (add_proxy(o) /\ proxies[key] # NoObj /\ ~ UNCHANGED vars)
            /\ ~ ENABLED (remove_proxy(o) /\ proxies[key] = NoObj /\ ~ UNCHANGED vars)
            /\ ~ ENABLED (add_proxy(o) /\ proxies'[key] = NoObj /\ ~ UNCHANGED vars)
            /\ ~ ENABLED (remove_proxy(o) /\ proxies'[key] # NoObj)
            /\ ~ ENABLED (remove_proxy(o) /\ \E k \in Keys \ {key} : proxies'[k] # proxies[k])

\* a used record is stored and a caller holds an unused object of its key
C13_Witness ==
    \E o \in StoredObjs, n \in lim.objs :
        /\ n # o
        /\ _proxy_key(n) = _proxy_key(o)
        /\ heap[o].success_count = 1
        /\ heap[n].success_count = 0

\* the (host, port) identity of object o, named by the key of that endpoint:
\* objects 1 and 2 are of the first endpoint, object 3 of the second
Endpoint(o) == IF o = 3 THEN 2 ELSE 1

\* C14: in every reachable state, whatever add_proxy, remove_proxy,
\* get_proxy, return_proxy and maintenance steps were interleaved, every
\* stored record sits under the key of its own (host, port), no two stored
\* records have the same (host, port), and size is the number of distinct
\* (host, port) stored.
C14_SizeCountsIdentities ==
    /\ \A k \in Keys : proxies[k] # NoObj => Endpoint(proxies[k]) = k
    /\ \A a, b \in StoredObjs : a # b => Endpoint(a) # Endpoint(b)
    /\ size = Cardinality({Endpoint(o) : o \in StoredObjs})

\* the second object of an endpoint is stored after the first one, which
\* was used, has left the pool
C14_Witness ==
    /\ proxies[1] = 2
    /\ heap[1].success_count + heap[1].fail_count > 0
    /\ size = 1

\* C15: an error raised in an iteration never ends the loop task.  The
\* error takes the task to its 60 second backoff; from there, unless stop()
\* has cancelled it, the task can go on and goes back to its interval sleep
\* while _running is True; and no step at all ends a loop task while
\* _running is True and cancel() was not called on it, that is, without a
\* stop().
C15_LoopSurvivesErrors ==
    \A t \in TaskIds :
        /\ ~ ENABLED (loop_raised(t) /\ task'[t].pc # "backoff")
        /\ (task[t].pc = "backoff" /\ ~task[t].cancel)
               => /\ ENABLED loop_backoff_over(t)
                  /\ ~ ENABLED (loop_backoff_over(t) /\ running /\ task'[t].pc # "sleep")
        /\ (task[t].pc \notin {"none", "done"} /\ running /\ ~task[t].cancel)
               => ~ ENABLED (Next /\ task'[t].pc = "done")

\* an iteration has raised: the task is in its backoff, the pool is running
\* and stop() has not cancelled the task
C15_Witness ==
    \E t \in TaskIds :
        /\ task[t].pc = "backoff"
        /\ running
        /\ ~task[t].cancel

\* record r was last checked more than 600 seconds ago; the clock counts
\* steps of 300 seconds
StaleNow(r) == 300 * (now - r.last_check_time) > 600

\* the dict without its stale records
WithoutStale ==
    [k \in Keys |-> IF proxies[k] # NoObj /\ StaleNow(heap[proxies[k]])
                    THEN NoObj ELSE proxies[k]]

\* C16: the iteration that follows the interval sleep does exactly one of
\* the two maintenance actions, chosen by size at that moment: with
\* size < min_proxies it starts a refresh and removes nothing, stale or not;
\* otherwise it removes the stale records and starts no refresh.
C16_RefreshOrCleanup ==
    \A t \in TaskIds :
        ~ ENABLED (/\ loop_woke(t)
                   /\ ~ (IF size < min_proxies
                         THEN task'[t].pc = "fetch" /\ proxies' = proxies
                         ELSE task'[t].pc # "fetch" /\ proxies' = WithoutStale))

\* the loop is in the fetch of a refresh while the one stored record, fewer
\* than min_proxies, is stale and still stored
C16_Witness ==
    \E t \in TaskIds, o \in StoredObjs :
        /\ task[t].pc = "fetch"
        /\ size = 1
        /\ size < min_proxies
        /\ StaleNow(heap[o])

\* C17: is_stale is true exactly when more than 600 seconds have passed
\* since last_check_time, and the cleanup of an iteration removes all the
\* stale records and only them: a record that is not stale stays stored,
\* and no record's statistics change.
C17_CleanupRemovesTheStale ==
    /\ \A o \in Objs : is_stale(heap[o]) <=> StaleNow(heap[o])
    /\ \A t \in TaskIds :
           ~ ENABLED (/\ loop_woke(t)
                      /\ size >= min_proxies
                      /\ ~ (proxies' = WithoutStale /\ heap' = heap))

\* a record checked 900 seconds ago is out while a record checked exactly
\* 600 seconds ago is stored
C17_Witness ==
    \E e, o \in Objs :
        /\ proxies[_proxy_key(e)] = NoObj
        /\ now - heap[e].last_check_time = 3
        /\ heap[e].avg_response_time = SAMPLE_DS
        /\ proxies[_proxy_key(o)] = o
        /\ now - heap[o].last_check_time = 2

\* C18: a failure of fetcher.fetch() (an exception or an empty list) or of
\* check_batch() during a refresh is absorbed.  In start() the refresh
\* returns, nothing is stored or altered, start() completes and its loop
\* task is created; in the loop the refresh returns, nothing is stored or
\* altered and the task goes back to its sleep while _running is True; and
\* get_proxy never raises.
C18_RefreshFailureAbsorbed ==
    /\ \A i \in StartIds :
           ~ ENABLED (/\ start_fetched(i, FALSE) \/ start_check_failed(i)
                      /\ ~ (/\ proxies' = proxies
                            /\ heap' = heap
                            /\ startPc'[i] = "idle"
                            /\ refresh_task' # NoTask
                            /\ task[refresh_task'].pc = "none"
                            /\ task'[refresh_task'].pc = "new"))
    /\ \A t \in TaskIds :
           ~ ENABLED (/\ loop_fetched(t, FALSE) \/ loop_check_failed(t)
                      /\ ~ (/\ proxies' = proxies
                            /\ heap' = heap
                            /\ task'[t].pc = IF running THEN "sleep" ELSE "done"))
    /\ ~ CanReturn(Raised)
    /\ ret # Raised

\* the pool runs and its loop sleeps although no refresh has validated a
\* single candidate so far
C18_Witness ==
    /\ running
    /\ refresh_task # NoTask
    /\ task[refresh_task].pc = "sleep"
    /\ StoredKeys = {}
    /\ \A o \in Objs : heap[o].avg_response_time = 0

\* the keys, not stored now, of the first j elements of valid
NewKeysUpTo(valid, j) == {_proxy_key(valid[m]) : m \in 1 .. j} \ StoredKeys

\* what a refresh that validated the list valid leaves behind: everything
\* stored before is stored and unaltered, whatever is stored now and was not
\* before is an element of valid, and the first element of valid of each new
\* key is stored exactly when the new keys up to it fit below max_proxies
RefreshedWith(valid) ==
    /\ \A k \in StoredKeys :
           /\ proxies'[k] = proxies[k]
           /\ heap'[proxies[k]] = heap[proxies[k]]
    /\ \A k \in Keys \ StoredKeys :
           proxies'[k] # NoObj => proxies'[k] \in Range(valid)
    /\ \A j \in 1 .. Len(valid) :
           LET k == _proxy_key(valid[j])
           IN  (k \notin StoredKeys /\ \A m \in 1 .. j - 1 : _proxy_key(valid[m]) # k)
                   => IF Cardinality(NewKeysUpTo(valid, j)) <= max_proxies - size
                      THEN proxies'[k] = valid[j]
                      ELSE proxies'[k] = NoObj

\* C19: after a refresh whose check_batch returned the list valid, the
\* collection is the one before plus validated candidates: every record
\* stored before is stored and unaltered (a candidate of a stored key does not
\* replace it), nothing that check_batch rejected is stored, and the valid
\* candidates of new keys are stored in the order of valid until max_proxies
\* is reached.
C19_RefreshAddsValidated ==
    \A valid \in ValidLists :
        ~ ENABLED (/\ \/ \E i \in StartIds : start_checked(i, valid)
                      \/ \E t \in TaskIds : loop_checked(t, valid)
                   /\ ~ RefreshedWith(valid))

\* a used record is stored, and a candidate of its endpoint that a later
\* refresh has validated is not
C19_Witness ==
    \E o \in StoredObjs, n \in Objs :
        /\ n # o
        /\ _proxy_key(n) = _proxy_key(o)
        /\ heap[o].success_count = 1
        /\ heap[o].avg_response_time = SAMPLE_DS
        /\ heap[n].avg_response_time = SAMPLE_DS
        /\ heap[n].last_check_time > heap[o].last_check_time

\* a refresh has been invoked and is in its fetch
RefreshInvoked ==
    \/ \E i \in StartIds : startPc[i] = "fetch"
    \/ \E t \in TaskIds : task[t].pc = "fetch"

\* the pool is running below min_proxies
RunningLow == running /\ size < min_proxies

\* C20: a start() that initialises the pool invokes a refresh at once, and
\* whenever the pool is running with size < min_proxies, whether a
\* return_proxy, a remove_proxy or a cleanup took it there, and stays so, a
\* refresh is eventually invoked.
C20_LowPoolIsRefreshed ==
    /\ [][\A i \in StartIds : (start(i) /\ ~running) => startPc'[i] = "fetch"]_vars
    /\ RunningLow ~> (RefreshInvoked \/ ~RunningLow)

\* the pool runs, its loop sleeps, no refresh is in progress, and the one
\* record has been evicted after five failures
C20_Witness ==
    /\ RunningLow
    /\ ~RefreshInvoked
    /\ \E t \in TaskIds : task[t].pc = "sleep" /\ ~task[t].cancel
    /\ \E o \in Objs : heap[o].fail_count = 5 /\ proxies[_proxy_key(o)] = NoObj

\* record o is stored with last_check_time = c while the pool runs
StoredUnchecked(o, c) ==
    /\ running
    /\ proxies[_proxy_key(o)] = o
    /\ heap[o].last_check_time = c

\* C21: while the pool is running, maintenance re-checks the records that are
\* already stored: a record that stays stored while the pool stays running
\* is eventually checked in place, which advances its last_check_time.
C21_StoredAreRechecked ==
    \A o \in Objs, c \in 0 .. StaleTime :
        StoredUnchecked(o, c)
            ~> (\/ ~running
                \/ proxies[_proxy_key(o)] # o
                \/ heap[o].last_check_time > c)

\* C22: a record is never un-evicted: once the record of an endpoint has left
\* the pool (eviction, remove_proxy or cleanup), whatever add_proxy or a
\* refresh later stores under that key enters with success_count = 0 and
\* fail_count = 0.  Every record starts with zeroed counters and only a
\* stored record is counted on, so an object with a counter above zero whose
\* key is absent is a record that has left the pool.
C22_NeverUnevicted ==
    \A k \in Keys :
        proxies[k] = NoObj =>
            ~ ENABLED (/\ Next
                       /\ proxies'[k] # NoObj
                       /\ \/ heap'[proxies'[k]].success_count # 0
                          \/ heap'[proxies'[k]].fail_count # 0)

\* C23: across every step of the pool (get_proxy, return_proxy, add_proxy,
\* remove_proxy of another record, refresh, cleanup, the lifecycle) that
\* leaves a record stored, its success_count and its fail_count do not
\* decrease; a successful return_proxy leaves fail_count as it was.
C23_CountersNeverDecrease ==
    [][\A o \in Objs :
           (proxies[_proxy_key(o)] = o /\ proxies'[_proxy_key(o)] = o)
               => /\ heap'[o].success_count >= heap[o].success_count
                  /\ heap'[o].fail_count >= heap[o].fail_count
                  /\ heap'[o].success_count > heap[o].success_count
                         => heap'[o].fail_count = heap[o].fail_count]_vars

\* a stored record that has failed twice and then succeeded
C23_Witness ==
    \E o \in StoredObjs : heap[o].fail_count = 2 /\ heap[o].success_count = 1

\* 100 * max(0, 1 - avg_response_time / 10), avg_response_time in deciseconds
TimePercent(r) ==
    IF r.avg_response_time >= 100 THEN 0 ELSE 100 - r.avg_response_time

\* C24: in every state, whatever return_proxy and the checker have written
\* since, the score of a record is 0.5 when success_count + fail_count = 0
\* and 0.7 * success_count / total + 0.3 * max(0, 1 - avg_response_time / 10)
\* otherwise.  In integers, for score = ScoreNum / ScoreDen thousandths:
\* 2 * score = 1000, and 100 * total * score = 70000 * success_count +
\* 300 * total * TimePercent.
C24_ScoreFormula ==
    \A o \in StoredObjs \cup lim.objs :
        LET r == heap[o]
            total == r.success_count + r.fail_count
        IN  IF total = 0
            THEN 2 * ScoreNum(r) = 1000 * ScoreDen(r)
            ELSE 100 * total * ScoreNum(r)
                     = ScoreDen(r) * (70000 * r.success_count
                                          + 300 * total * TimePercent(r))

\* after one more return_proxy, a stored record with successes, failures and
\* a latency of 5 seconds, next to a caller's record that has no sample
C24_Witness ==
    /\ SumSamples(Objs) = lim.samples
    /\ \E o \in StoredObjs :
           /\ heap[o].success_count = 2
           /\ heap[o].fail_count = 2
           /\ heap[o].avg_response_time = RecLatencyStep
    /\ \E o \in lim.objs :
           heap[o].success_count + heap[o].fail_count = 0

\* the success rate of a is below that of b (both have samples)
RateBelow(a, b) ==
    a.success_count * (b.success_count + b.fail_count)
        < b.success_count * (a.success_count + a.fail_count)

RateEqual(a, b) ==
    a.success_count * (b.success_count + b.fail_count)
        = b.success_count * (a.success_count + a.fail_count)

\* the score of a is below that of b
ScoreLess(a, b) == ScoreNum(a) * ScoreDen(b) < ScoreNum(b) * ScoreDen(a)

\* C25: among records that have at least one sample, at equal
\* avg_response_time the record of the higher success rate has the strictly
\* higher score; at equal success rate the record of the higher
\* avg_response_time has a score that is not higher, and the same score when
\* both latencies are 10 seconds or more.  Checked for every stored record
\* against every record of RecInputs.
C25_ScoreMonotone ==
    \A o \in StoredObjs, b \in RecInputs :
        LET a == heap[o]
        IN  (a.success_count + a.fail_count > 0 /\ b.success_count + b.fail_count > 0)
                => /\ (a.avg_response_time = b.avg_response_time /\ RateBelow(a, b))
                          => ScoreLess(a, b)
                   /\ (RateEqual(a, b) /\ a.avg_response_time <= b.avg_response_time)
                          => ~ ScoreLess(a, b)
                   /\ (RateEqual(a, b) /\ a.avg_response_time >= 100
                                       /\ b.avg_response_time >= 100)
                          => ~ ScoreLess(a, b) /\ ~ ScoreLess(b, a)

\* a stored record that has been used once more, with a latency of 10
\* seconds and a success rate of 2/3: RecInputs holds records of the same
\* latency and a lower rate, and of the same rate and 15 seconds
C25_Witness ==
    /\ SumSamples(Objs) = lim.samples
    /\ \E o \in StoredObjs :
           /\ heap[o].success_count = 2
           /\ heap[o].fail_count = 1
           /\ heap[o].avg_response_time = 2 * RecLatencyStep
           /\ \E b \in RecInputs :
                  /\ b.avg_response_time = heap[o].avg_response_time
                  /\ b.fail_count > 0
                  /\ RateBelow(b, heap[o])
           /\ \E b \in RecInputs :
                  /\ b.avg_response_time > heap[o].avg_response_time
                  /\ RateEqual(b, heap[o])
                  /\ b.success_count > 0

\* fraction a is at most fraction b
FracLeq(a, b) == a.num * b.den <= b.num * a.den

\* C26: in every state of the pool, the empty pool included, get_stats()
\* returns the six fields total, avg_score, max_score, min_score,
\* total_success and total_fail, with total = size, total_success and
\* total_fail the sums of the stored counters, and
\* min_score <= avg_score <= max_score.
C26_StatsHasSixFields ==
    /\ DOMAIN get_stats = {"total", "avg_score", "max_score", "min_score",
                           "total_success", "total_fail"}
    /\ get_stats.total = size
    /\ get_stats.total_success = SumSuccess(StoredObjs)
    /\ get_stats.total_fail = SumFail(StoredObjs)
    /\ FracLeq(get_stats.min_score, get_stats.avg_score)
    /\ FracLeq(get_stats.avg_score, get_stats.max_score)

\* a refresh is suspended in fetcher.fetch() or in checker.check_batch()
RefreshSuspended ==
    \/ \E i \in StartIds : startPc[i] \in {"fetch", "check"}
    \/ \E t \in TaskIds : task[t].pc \in {"fetch", "check"}

\* C27: while a refresh is suspended in fetch() or check_batch() the lock is
\* free, and get_proxy, return_proxy, add_proxy and remove_proxy each run to
\* completion with the refresh still suspended.  (return_proxy on a stored
\* record is followed only while the run has samples left.)
C27_LockFreeDuringRefresh ==
    RefreshSuspended =>
        /\ ~lock
        /\ ENABLED (get_proxy /\ RefreshSuspended')
        /\ \A o \in lim.objs :
               /\ ENABLED (add_proxy(o) /\ RefreshSuspended')
               /\ ENABLED (remove_proxy(o) /\ RefreshSuspended')
               /\ (proxies[_proxy_key(o)] = NoObj \/ SumSamples(Objs) < lim.samples)
                      => \A success \in BOOLEAN :
                             ENABLED (return_proxy(o, success) /\ RefreshSuspended')

\* the loop's refresh is suspended in check_batch() while the pool holds a
\* record that get_proxy has handed out
C27_Witness ==
    /\ \E t \in TaskIds : task[t].pc = "check" /\ ~task[t].cancel
    /\ \E o \in StoredObjs : ret = o /\ SumSamples(Objs) < lim.samples

\* a failed return_proxy through the caller's record o evicts the record
\* stored under its key
EvictedBy(o) ==
    ENABLED (return_proxy(o, FALSE) /\ proxies'[_proxy_key(o)] = NoObj)

\* C29 as the specification words it: a stored record that has failed 3
\* times and succeeded 50 times can be evicted by a single failed
\* return_proxy.
C29_EvictedAfterManySuccesses ==
    \A o \in lim.objs :
        LET stored_proxy == proxies[_proxy_key(o)]
        IN  (/\ stored_proxy # NoObj
             /\ SumSamples(Objs) < lim.samples
             /\ heap[stored_proxy].fail_count = 3
             /\ heap[stored_proxy].success_count = RecManySuccesses)
                => EvictedBy(o)

\* C29, amended: fail_count is a lifetime counter, so the gate
\* fail_count >= max_fail_count stays open once reached: a successful
\* return_proxy leaves the record stored with the fail_count it had, and a
\* later failed return_proxy evicts the record exactly when, with that
\* failure counted, it has at least 5 samples and a score below
\* score_threshold.  A record that failed 3 times and succeeded 50 times has
\* a score of at least 0.64 after one more failure and is not evicted.
C29_GateStaysOpen ==
    \A o \in lim.objs :
        LET key == _proxy_key(o)
            stored_proxy == proxies[key]
            r == heap[stored_proxy]
        IN  (/\ stored_proxy # NoObj
             /\ SumSamples(Objs) < lim.samples
             /\ r.fail_count >= max_fail_count)
                => /\ ~ ENABLED (/\ return_proxy(o, TRUE)
                                 /\ \/ proxies'[key] # stored_proxy
                                    \/ heap'[stored_proxy].fail_count # r.fail_count)
                   /\ EvictedBy(o) <=> LowQuality([r EXCEPT !.fail_count = @ + 1])
                   /\ (r.fail_count = 3 /\ r.success_count >= RecManySuccesses)
                          => ~ EvictedBy(o)

\* a record that had failed 3 times and succeeded twice since has been
\* evicted by one more failed return_proxy
C29_Witness ==
    \E o \in Objs :
        /\ proxies[_proxy_key(o)] = NoObj
        /\ heap[o].fail_count = 4
        /\ heap[o].success_count = 2
        /\ heap[o].avg_response_time >= 100
        /\ SumSamples(Objs) = lim.samples

\* C30: max_fail_count bounds the consecutive failures: the eviction check
\* of return_proxy is triggered only when the record's current run of
\* consecutive failed calls exceeds max_fail_count, and a successful call
\* starts the run anew.  A failed return_proxy that directly follows a
\* successful one of the same record ends a run of one, so after every
\* successful return_proxy the record is one that a failed return_proxy does
\* not evict.
C30_OnlyConsecutiveFailuresEvict ==
    [][\A o \in lim.objs :
           LET stored_proxy == proxies[_proxy_key(o)]
           IN  (/\ stored_proxy # NoObj
                /\ heap'[stored_proxy].success_count > heap[stored_proxy].success_count)
                   => ~ EvictedBy(o)']_vars

\* C31: under the default thresholds a record that has only ever failed does
\* not stay in the pool: when success_count = 0 the failed return_proxy that
\* brings fail_count to 5 evicts the record, whatever its avg_response_time,
\* 0 included.
C31_AlwaysFailingIsEvicted ==
    \A o \in lim.objs :
        LET stored_proxy == proxies[_proxy_key(o)]
        IN  (/\ stored_proxy # NoObj
             /\ SumSamples(Objs) < lim.samples
             /\ heap[stored_proxy].success_count = 0
             /\ heap[stored_proxy].fail_count = 4)
                => EvictedBy(o)

\* record o is stored and stale while the pool runs
StoredStale(o) ==
    /\ running
    /\ proxies[_proxy_key(o)] = o
    /\ StaleNow(heap[o])

\* some stored record is stale; a stored record that is stale stays stale
\* until it is removed, so once this is false the records that were stale
\* have been removed
AnyStoredStale == \E o \in Objs : StoredStale(o)

\* C32 as it was claimed: while the pool keeps running, every stored record
\* that has become stale is eventually removed, whatever size is and
\* whatever the fetcher returns.
C32_StaleIsRemoved == AnyStoredStale ~> (~running \/ ~AnyStoredStale)

\* C32, amended: while the pool keeps running, the stored records that have
\* become stale are eventually removed unless size is below min_proxies: an
\* iteration that finds size < min_proxies refreshes and cleans up nothing.
C32_StaleIsRemovedUnlessLow ==
    AnyStoredStale ~> (~running \/ ~AnyStoredStale \/ size < min_proxies)

\* the loop of a running pool sleeps after a cleanup that has left the pool
\* empty: both records, checked 900 seconds ago, are out
C32_Witness ==
    /\ running
    /\ \E t \in TaskIds : task[t].pc = "sleep" /\ ~task[t].cancel
    /\ StoredKeys = {}
    /\ \A o \in lim.objs :
           /\ now - heap[o].last_check_time = 3
           /\ heap[o].avg_response_time = SAMPLE_DS

\* everything of record o but its last_use_time is as it was
SameButUse(o) ==
    /\ heap'[o].success_count = heap[o].success_count
    /\ heap'[o].fail_count = heap[o].fail_count
    /\ heap'[o].avg_response_time = heap[o].avg_response_time
    /\ heap'[o].last_check_time = heap[o].last_check_time

\* C39: a get_proxy() call that returns r writes last_use_time = now on r
\* and nothing else: the dict and so size, the counters, the
\* avg_response_time and the last_check_time of every record, the
\* last_use_time of every other record and the lifecycle are as before.
C39_AcquireWritesOnlyLastUse ==
    \A r \in Results :
        ~ ENABLED (/\ get_proxy
                   /\ ret' = r
                   /\ ~ (/\ proxies' = proxies
                         /\ size' = size
                         /\ \A o \in Objs :
                                /\ SameButUse(o)
                                /\ o # r => heap'[o].last_use_time = heap[o].last_use_time
                                /\ o = r => heap'[o].last_use_time = now
                         /\ UNCHANGED <<lock, running, refresh_task, task, startPc,
                                        stopWait, now, max_proxies, lim, batch>>))

\* two records are stored, get_proxy has returned one of them after the
\* clock moved, and the other has not been handed out
C39_Witness ==
    \E r, o \in StoredObjs :
        /\ r # o
        /\ ret = r
        /\ now = 1
        /\ heap[r].last_use_time = 1
        /\ heap[o].last_use_time = 0

\* C33: return_proxy(o, success) counts on the record stored under o's key,
\* not on o: when the stored record is another object than o, that record's
\* success_count or fail_count goes up by one (and the record stays, or is
\* evicted) while o, the caller's object, is left as it was.
C33_ReleaseCountsOnStored ==
    \A o \in lim.objs, success \in BOOLEAN :
        LET key == _proxy_key(o)
            stored_proxy == proxies[key]
        IN  (/\ stored_proxy # NoObj
             /\ stored_proxy # o
             /\ SumSamples(Objs) < lim.samples)
                => /\ ENABLED return_proxy(o, success)
                   /\ ~ ENABLED (/\ return_proxy(o, success)
                                 /\ ~ (/\ heap'[o] = heap[o]
                                       /\ heap'[stored_proxy]
                                              = IF success
                                                THEN [heap[stored_proxy] EXCEPT
                                                          !.success_count = @ + 1]
                                                ELSE [heap[stored_proxy] EXCEPT
                                                          !.fail_count = @ + 1]
                                       /\ proxies'[key] \in {stored_proxy, NoObj}))

\* the stored record has been counted on once, through a caller's object of
\* the same endpoint that has no sample itself
C33_Witness ==
    \E o \in lim.objs :
        LET stored_proxy == proxies[_proxy_key(o)]
        IN  /\ stored_proxy # NoObj
            /\ stored_proxy # o
            /\ SumSamples(Objs) = lim.samples
            /\ heap[stored_proxy].success_count = 1
            /\ heap[stored_proxy].fail_count = 0
            /\ heap[o].success_count = 0
            /\ heap[o].fail_count = 0

\* a step in which the start() call i returns: its initial refresh is over
\* and the loop task is created
StartReturns(i) ==
    \/ start_fetched(i, FALSE)
    \/ \E valid \in ValidLists : start_checked(i, valid)
    \/ start_check_failed(i)

\* C34: a start() call that found the pool stopped completes the initial
\* refresh, then creates the loop task, and when it returns with no stop()
\* invoked since it began, the pool is running and exactly one loop task is
\* alive (tasks that stop() has cancelled are not counted).  The call in the
\* highest slot in flight is the one that began last, and a stop() invoked
\* since it began would have reset _running, which no later start() has set
\* again: so the calls of the claim are those that return with _running set.
C34_StartLaunchesOneLoop ==
    \A i \in StartIds :
        (/\ startPc[i] # "idle"
         /\ running
         /\ \A j \in StartIds : startPc[j] # "idle" => j <= i)
            => ~ ENABLED (/\ StartReturns(i)
                          /\ ~ (/\ running'
                                /\ Cardinality(UncancelledTasks') = 1))

\* C35: the lock is never left held, so whoever requests it gets it: in
\* every state get_proxy, add_proxy, remove_proxy and return_proxy can run
\* (return_proxy on a stored record while the run has samples left), a loop
\* whose sleep is over can run its cleanup or enter its refresh, and a
\* refresh whose check_batch() has returned can run its insertion.
C35_LockNeverBlocks ==
    /\ ~lock
    /\ ENABLED get_proxy
    /\ \A o \in lim.objs :
           /\ ENABLED add_proxy(o)
           /\ ENABLED remove_proxy(o)
           /\ (proxies[_proxy_key(o)] = NoObj \/ SumSamples(Objs) < lim.samples)
                  => \A success \in BOOLEAN : ENABLED return_proxy(o, success)
    /\ \A t \in TaskIds :
           ~task[t].cancel
               => /\ task[t].pc = "sleep" => ENABLED loop_woke(t)
                  /\ task[t].pc = "check"
                         => \A valid \in ValidLists : ENABLED loop_checked(t, valid)
    /\ \A i \in StartIds :
           startPc[i] = "check"
               => \A valid \in ValidLists : ENABLED start_checked(i, valid)

\* after a refresh has stored a record, a caller has got it and reported a
\* use, and another caller has removed it, the loop sleeps
C35_Witness ==
    /\ \E t \in TaskIds : task[t].pc = "sleep" /\ ~task[t].cancel
    /\ StoredKeys = {}
    /\ \E o \in lim.objs :
           /\ ret = o
           /\ heap[o].avg_response_time = SAMPLE_DS
           /\ heap[o].success_count = 1

\* the check() calls of the batch that are suspended in a request
InFlight == {i \in DOMAIN batch.one : batch.one[i].pc = "get"}

\* the probes whose check() returned True
ValidProbes == {i \in DOMAIN batch.one : batch.one[i].is_valid}

\* C36: during check_batch(proxies, concurrency) the number of probes in
\* flight never exceeds concurrency, whatever the number of records and the
\* order in which the probes complete.
C36_InFlightBounded == Cardinality(InFlight) <= batch.concurrency

\* one probe holds the only permit and is at its second URL while the other
\* record of the list waits
C36_Witness ==
    /\ batch.pc = "gather"
    /\ batch.concurrency = 1
    /\ \E i, j \in DOMAIN batch.one :
           /\ batch.one[i].pc = "get" /\ batch.one[i].url > 1
           /\ batch.one[j].pc = "wait"

\* C37: check_batch returns only after every probe has completed, and returns
\* exactly the input records whose check returned True, each once, whatever
\* the order of completion and for every input list, the empty one included
\* (so the call never ends in an exception).
C37_ReturnsExactlyTheValid ==
    /\ batch.pc # "raised"
    /\ batch.pc = "returned"
           => /\ \A i \in DOMAIN batch.one : batch.one[i].pc = "done"
              /\ Range(batch.result) = {batch.proxies[i] : i \in ValidProbes}
              /\ Len(batch.result) = Cardinality(ValidProbes)

\* C38: check(record) on success sets avg_response_time to old * 0.7 +
\* sample * 0.3 when old > 0 and to the sample otherwise, and sets
\* last_check_time to now; on failure it returns False without raising (the
\* probe is counted by check_one) and changes nothing; it never changes
\* success_count or fail_count.
C38_CheckEffects ==
    \A i \in 1 .. MaxBatch :
        (batch.pc = "gather" /\ i \in DOMAIN batch.one /\ batch.one[i].pc # "done")
            => LET o == batch.proxies[i]
                   old == heap[o]
               IN  /\ ~ ENABLED (check_one_enter(i, FALSE) /\ heap' # heap)
                   /\ \A response \in Responses, sample \in ResponseTimes :
                          ~ ENABLED
                              (/\ check_responded(i, response, sample)
                               /\ ~ (/\ heap'[o].success_count = old.success_count
                                     /\ heap'[o].fail_count = old.fail_count
                                     /\ batch'.one[i].is_valid
                                            => /\ IF old.avg_response_time > 0
                                                  THEN 10 * heap'[o].avg_response_time
                                                           = 7 * old.avg_response_time
                                                             + 3 * sample
                                                  ELSE heap'[o].avg_response_time = sample
                                               /\ heap'[o].last_check_time = now
                                     /\ ~batch'.one[i].is_valid => heap' = heap
                                     /\ batch'.one[i].pc = "done"
                                            => batch'.checked_count
                                                   = batch.checked_count + 1))

\* the record checked before has passed a probe that took no measurable time
\* at time 1, and another probe of the batch has failed
C38_Witness ==
    /\ \E i \in ValidProbes : batch.proxies[i] = 2
    /\ 10 * heap[2].avg_response_time = 7 * SAMPLE_DS
    /\ heap[2].last_check_time = 1
    /\ heap[2].success_count = 1
    /\ \E j \in DOMAIN batch.one :
           batch.one[j].pc = "done" /\ ~batch.one[j].is_valid /\ batch.one[j].url > 0

\* C40: a TargetSiteChecker judges by its expected_status: its check returns
\* True exactly when the target URL answers with that status code.
C40_JudgesByExpectedStatus ==
    \A i \in 1 .. MaxBatch :
        (/\ batch.checker.expected_status # NoneVal
         /\ batch.pc = "gather" /\ i \in DOMAIN batch.one
         /\ batch.one[i].pc = "get")
            => \A response \in Responses, sample \in ResponseTimes :
                   ~ ENABLED
                       (/\ check_responded(i, response, sample)
                        /\ batch'.one[i].is_valid
                               # (response = batch.checker.expected_status))
====
